---- MODULE Spec2Model ----
(***************************************************************************)
(* NotchPlayer/ffdecode.c: the duration estimators, the codec identifier   *)
(* and the decode pump (ff_open / ff_next_frame / ff_close).               *)
(*                                                                         *)
(* The demuxer, the decoder and the pixel-buffer allocator are libraries   *)
(* the file calls; they are modelled by their documented contracts         *)
(* (libavformat / libavcodec send-receive API), at the call sites.         *)
(***************************************************************************)
EXTENDS Integers, Sequences, FiniteSets, TLC

(***************************************************************************)
(* Bounds of the model.                                                    *)
(***************************************************************************)
\* longest packet sequence a window of ff_precise_duration reads before r < 0
MaxScan == 2
\* longest sequence of read outcomes the source of a decode session delivers
MaxPkts == 3
\* most frames the decoder holds back until it is fed more input or flushed
MaxDelay == 2
\* most video frames of an undamaged container with consistent metadata
MaxFrames == 3
\* longest sequence of read outcomes of a session whose caller also calls
\* the estimators
MaxResPkts == 1
\* longest sequence of read outcomes, and most frames held back, of the
\* sessions whose calls are followed to their return
MaxLivePkts == 2
MaxLiveDelay == 1

(***************************************************************************)
(* Program constants.                                                      *)
(***************************************************************************)
\* libavutil's global time unit: ticks per second of AVFormatContext.duration
AV_TIME_BASE == 1000000
\* the "no value" timestamp (INT64_MIN in C; the least value used here)
AV_NOPTS_VALUE == -2147483647
\* AVERROR(EAGAIN), AVERROR_EOF, AVERROR_INVALIDDATA, AVERROR(EIO)
AVERROR_EAGAIN == -35
AVERROR_EOF == -541478725
AVERROR_INVALIDDATA == -1094995529
AVERROR_EIO == -5
\* AVERROR(ENOENT): avformat_open_input on a path that cannot be opened
AVERROR_ENOENT == -2
\* ff_next_frame's own codes: converter setup failed, pixel buffer not created
ERR_SWS == -2
ERR_PIXBUF == -3
\* the hard cap of the forward scan (ffdecode.c:247)
SCAN_CAP == 10000
\* 'n' | 'c'<<8 | 'l'<<16 | 'c'<<24
TAG_NCLC == 1668047726

(***************************************************************************)
(* C doubles, as exact rationals in lowest terms, plus NaN.                *)
(***************************************************************************)
RECURSIVE Gcd(_, _)
Gcd(a, b) == IF b = 0 THEN a ELSE Gcd(b, a % b)

Abs(x) == IF x < 0 THEN -x ELSE x

NaN == [nan |-> TRUE, n |-> 0, d |-> 1]

\* the double n / d, for d > 0
Dbl(n, d) ==
    LET g == Gcd(Abs(n), d)
    IN  [nan |-> FALSE, n |-> n \div g, d |-> d \div g]

DMul(a, b) ==
    IF a.nan \/ b.nan THEN NaN
    ELSE LET g1 == Gcd(Abs(a.n), b.d)
             g2 == Gcd(Abs(b.n), a.d)
         IN  Dbl((a.n \div g1) * (b.n \div g2), (a.d \div g2) * (b.d \div g1))

\* a / b; every division of the file is guarded by b > 0
DDiv(a, b) ==
    IF a.nan \/ b.nan \/ b.n <= 0 THEN NaN
    ELSE DMul(a, Dbl(b.d, b.n))

\* (x > 0) on doubles: false for NaN
DGt0(a) == ~a.nan /\ a.n > 0

av_q2d(q) == Dbl(q.num, q.den)

Q(n, d) == [num |-> n, den |-> d]

(***************************************************************************)
(* A container as the demuxer reports it (AVFormatContext / AVStream).     *)
(***************************************************************************)
\* the fields every function reads after a successful open
BaseMeta ==
    [ path           |-> "file",      \* the path argument: "file" | "null"
      open           |-> "ok",        \* "ok" | "open_fail" | "info_fail"
      errcode        |-> 0,           \* what the failing libavformat call returned
      vindex         |-> 0,           \* av_find_best_stream
      has_decoder    |-> TRUE,        \* avcodec_find_decoder
      fmt_duration   |-> AV_NOPTS_VALUE,
      vs_duration    |-> AV_NOPTS_VALUE,
      time_base      |-> Q(1, 30),
      nb_frames      |-> 0,
      avg_frame_rate |-> Q(0, 1),
      r_frame_rate   |-> Q(0, 1),
      bit_rate       |-> 0,
      pb             |-> TRUE,
      size           |-> -1,          \* avio_size
      codec_name     |-> "h264",      \* avcodec_get_name(codec_id)
      codec_tag      |-> 0 ]

\* what the demuxer does with the seeks and reads of ff_precise_duration
\* seek:  which of the seeks of try_seek_to_end succeed
\* scan:  per window, the packets av_read_frame delivers after the seek
\* more:  per window, <<>> when av_read_frame then answers r < 0, <<pkt>>
\*        when it goes on delivering pkt for ever (a source with no true EOF)
\* alloc: the window whose av_packet_alloc fails (0: none does)
BaseTail ==
    [ seek  |-> [file |-> TRUE, frame |-> TRUE, zero |-> TRUE],
      scan  |-> << <<>>, <<>>, <<>> >>,
      more  |-> << <<>>, <<>>, <<>> >>,
      alloc |-> 0 ]

Pkt(s, p, d) == [stream_index |-> s, pts |-> p, dts |-> d]

(***************************************************************************)
(* The duration estimators.                                                *)
(***************************************************************************)
\* faulty variant: r_frame_rate is never tried
PickFrameRate_noFallback(m) == m.avg_frame_rate

\* vs->avg_frame_rate.num > 0 ? vs->avg_frame_rate : vs->r_frame_rate
PickFrameRate(m) ==
    IF m.avg_frame_rate.num > 0 THEN m.avg_frame_rate ELSE m.r_frame_rate

ContainerSeconds(m) == Dbl(m.fmt_duration, AV_TIME_BASE)

StreamSeconds(m) == DMul(Dbl(m.vs_duration, 1), av_q2d(m.time_base))

ff_probe_duration(m) ==
    IF m.open # "ok" THEN NaN
    ELSE
    LET vs   == m.vindex >= 0
        dur1 == IF m.fmt_duration > 0 THEN ContainerSeconds(m) ELSE NaN
        dur2 == IF ~DGt0(dur1) /\ vs /\ m.vs_duration > 0
                THEN StreamSeconds(m) ELSE dur1
        afr  == PickFrameRate(m)
        fps  == IF afr.den > 0 THEN Dbl(afr.num, afr.den) ELSE Dbl(0, 1)
        dur3 == IF ~DGt0(dur2) /\ vs /\ m.nb_frames > 0 /\ DGt0(fps)
                THEN DDiv(Dbl(m.nb_frames, 1), fps) ELSE dur2
        dur4 == IF ~DGt0(dur3) /\ m.bit_rate > 0 /\ m.pb /\ m.size > 0
                THEN Dbl(m.size * 8, m.bit_rate) ELSE dur3
    IN  IF DGt0(dur4) THEN dur4 ELSE NaN

\* faulty variant: no fall-back to the stream duration
ff_frame_accurate_duration_noFallback(m) ==
    IF m.path = "null" THEN NaN
    ELSE IF m.open # "ok" THEN NaN
    ELSE
    LET afr == PickFrameRate(m)
        out == IF m.vindex >= 0 /\ afr.num > 0 /\ afr.den > 0 /\ m.nb_frames > 0
               THEN DMul(Dbl(m.nb_frames, 1), Dbl(afr.den, afr.num))
               ELSE NaN
    IN  IF DGt0(out) THEN out ELSE NaN

ff_frame_accurate_duration(m) ==
    IF m.path = "null" THEN NaN
    ELSE IF m.open # "ok" THEN NaN
    ELSE
    LET afr == PickFrameRate(m)
        out == IF m.vindex >= 0
               THEN IF afr.num > 0 /\ afr.den > 0 /\ m.nb_frames > 0
                    THEN DMul(Dbl(m.nb_frames, 1), Dbl(afr.den, afr.num))
                    ELSE IF m.vs_duration # AV_NOPTS_VALUE
                         THEN StreamSeconds(m)
                         ELSE NaN
               ELSE NaN
    IN  IF DGt0(out) THEN out ELSE NaN

ff_get_avg_fps(m) ==
    IF m.path = "null" THEN NaN
    ELSE IF m.open # "ok" THEN NaN
    ELSE
    LET afr == PickFrameRate(m)
    IN  IF m.vindex >= 0 /\ afr.num > 0 /\ afr.den > 0
        THEN Dbl(afr.num, afr.den) ELSE NaN

ff_format_duration(m) ==
    IF m.path = "null" THEN NaN
    ELSE IF m.open # "ok" THEN NaN
    ELSE
    LET dur == IF m.fmt_duration > 0 THEN ContainerSeconds(m) ELSE NaN
    IN  IF DGt0(dur) THEN dur ELSE NaN

(***************************************************************************)
(* The codec identifier.                                                   *)
(***************************************************************************)
\* byte k (0 = least significant) of the 32-bit tag
TagByte(tag, k) ==
    LET sh == IF k = 0 THEN 1 ELSE IF k = 1 THEN 256
              ELSE IF k = 2 THEN 65536 ELSE 16777216
    IN  (tag \div sh) % 256

\* faulty variant: the four bytes are taken most significant first
TagIsNclc_msbFirst(tag) ==
    /\ tag # 0
    /\ TagByte(tag, 3) = 110
    /\ TagByte(tag, 2) = 99
    /\ TagByte(tag, 1) = 108
    /\ TagByte(tag, 0) = 99

\* tagstr, the four bytes least significant first, equals "nclc"
TagIsNclc(tag) ==
    /\ tag # 0
    /\ TagByte(tag, 0) = 110
    /\ TagByte(tag, 1) = 99
    /\ TagByte(tag, 2) = 108
    /\ TagByte(tag, 3) = 99

\* faulty variant: the libavformat error is handed to the caller
ff_is_notchlc_propagates(m) ==
    IF m.path = "null" THEN -1
    ELSE IF m.open # "ok" THEN m.errcode
    ELSE IF m.vindex < 0 THEN -1
    ELSE IF m.codec_name = "notchlc" THEN 1
    ELSE IF TagIsNclc(m.codec_tag) THEN 1
    ELSE 0

ff_is_notchlc(m) ==
    IF m.path = "null" THEN -1
    ELSE IF m.open # "ok" THEN -1
    ELSE IF m.vindex < 0 THEN -1
    ELSE IF m.codec_name = "notchlc" THEN 1
    ELSE IF TagIsNclc(m.codec_tag) THEN 1
    ELSE 0

(***************************************************************************)
(* ff_precise_duration: seek near the end, scan forward, window by window. *)
(***************************************************************************)
windows_sec == <<0, 5, 30>>

try_seek_to_end(m, sk) ==
    IF sk.file THEN 0
    ELSE IF m.fmt_duration > 0 /\ sk.frame THEN 0
    ELSE IF m.vs_duration # AV_NOPTS_VALUE /\ m.vs_duration > 0 /\ sk.frame THEN 0
    ELSE IF sk.zero THEN 0
    ELSE -1

\* pts if present, else dts, else no value
PacketTs(pkt) ==
    IF pkt.pts # AV_NOPTS_VALUE THEN pkt.pts
    ELSE IF pkt.dts # AV_NOPTS_VALUE THEN pkt.dts
    ELSE AV_NOPTS_VALUE

\* faulty variant: the loop test is iter++ <= 10000
ScanCapLeft_offByOne(iter) == SCAN_CAP + 1 - iter

\* how many more passes while (iter++ < 10000) allows after iter passes
ScanCapLeft(iter) == SCAN_CAP - iter

\* what a pass of the loop that reads pkt leaves in last_ts
Capture(m, pkt, last) ==
    LET ts == IF pkt.stream_index = m.vindex THEN PacketTs(pkt)
              ELSE AV_NOPTS_VALUE
    IN  IF ts # AV_NOPTS_VALUE THEN ts ELSE last

\* the while (iter++ < 10000) loop over the packets the demuxer still has:
\* [last |-> last_ts, reads |-> calls of av_read_frame].  Once the listed
\* packets are read, a source with no EOF delivers the same packet in every
\* pass that is left; the passes are counted, not unrolled.
RECURSIVE ScanLoop(_, _, _, _, _, _)
ScanLoop(m, pkts, more, iter, last, reads) ==
    IF ScanCapLeft(iter) <= 0 THEN [last |-> last, reads |-> reads]
    ELSE IF iter + 1 > Len(pkts)
    THEN IF more = <<>>
         THEN [last |-> last, reads |-> reads + 1]
         ELSE [last  |-> Capture(m, more[1], last),
               reads |-> reads + ScanCapLeft(iter)]
    ELSE ScanLoop(m, pkts, more, iter + 1, Capture(m, pkts[iter + 1], last),
                  reads + 1)

\* faulty variant: every window is scanned, also after a timestamp was captured
RECURSIVE WindowLoop_noEarlyStop(_, _, _, _)
WindowLoop_noEarlyStop(m, t, w, acc) ==
    IF w > Len(windows_sec) THEN acc
    ELSE IF try_seek_to_end(m, t.seek) < 0
         THEN [acc EXCEPT !.seeks = @ + 1]
    ELSE IF t.alloc = w
         THEN [acc EXCEPT !.seeks = @ + 1]
    ELSE LET s  == ScanLoop(m, t.scan[w], t.more[w], 0, acc.last, 0)
             a2 == [last    |-> s.last,
                    seeks   |-> acc.seeks + 1,
                    reads   |-> Append(acc.reads, s.reads),
                    scanned |-> Append(acc.scanned, w),
                    allocs  |-> acc.allocs + 1,
                    frees   |-> acc.frees + 1]
         IN  WindowLoop_noEarlyStop(m, t, w + 1, a2)

\* the for loop over the windows, from window w (1-based) on:
\* [last    |-> last_ts,
\*  seeks   |-> calls of try_seek_to_end,
\*  reads   |-> calls of av_read_frame, per scanned window,
\*  scanned |-> the windows scanned,
\*  allocs, frees |-> calls of av_packet_alloc that succeeded, of av_packet_free]
RECURSIVE WindowLoop(_, _, _, _)
WindowLoop(m, t, w, acc) ==
    IF w > Len(windows_sec) THEN acc
    ELSE IF try_seek_to_end(m, t.seek) < 0
         THEN [acc EXCEPT !.seeks = @ + 1]
    ELSE IF t.alloc = w                       \* if (!pkt) break;
         THEN [acc EXCEPT !.seeks = @ + 1]
    ELSE LET s  == ScanLoop(m, t.scan[w], t.more[w], 0, acc.last, 0)
             a2 == [last    |-> s.last,
                    seeks   |-> acc.seeks + 1,
                    reads   |-> Append(acc.reads, s.reads),
                    scanned |-> Append(acc.scanned, w),
                    allocs  |-> acc.allocs + 1,
                    frees   |-> acc.frees + 1]
         IN  IF s.last # AV_NOPTS_VALUE THEN a2
             ELSE WindowLoop(m, t, w + 1, a2)

EndScan(m, t) ==
    WindowLoop(m, t, 1, [last |-> AV_NOPTS_VALUE, seeks |-> 0, reads |-> <<>>,
                         scanned |-> <<>>, allocs |-> 0, frees |-> 0])

\* faulty variant: the result is returned without the (result > 0) test
ff_precise_duration_unguarded(m, t) ==
    IF m.path = "null" THEN NaN
    ELSE IF m.open # "ok" THEN NaN
    ELSE IF m.vindex < 0
    THEN IF m.fmt_duration > 0 THEN ContainerSeconds(m) ELSE NaN
    ELSE
    LET last_ts == EndScan(m, t).last
    IN  IF last_ts # AV_NOPTS_VALUE
        THEN DMul(Dbl(last_ts, 1), av_q2d(m.time_base))
        ELSE IF m.vs_duration # AV_NOPTS_VALUE /\ m.vs_duration > 0
        THEN StreamSeconds(m)
        ELSE IF m.fmt_duration > 0
        THEN ContainerSeconds(m)
        ELSE NaN

\* faulty variant: the container duration is preferred to the stream duration
ff_precise_duration_containerFirst(m, t) ==
    IF m.path = "null" THEN NaN
    ELSE IF m.open # "ok" THEN NaN
    ELSE IF m.vindex < 0
    THEN LET r0 == IF m.fmt_duration > 0 THEN ContainerSeconds(m) ELSE NaN
         IN  IF DGt0(r0) THEN r0 ELSE NaN
    ELSE
    LET last_ts == EndScan(m, t).last
        result  == IF last_ts # AV_NOPTS_VALUE
                   THEN DMul(Dbl(last_ts, 1), av_q2d(m.time_base))
                   ELSE IF m.fmt_duration > 0
                   THEN ContainerSeconds(m)
                   ELSE IF m.vs_duration # AV_NOPTS_VALUE /\ m.vs_duration > 0
                   THEN StreamSeconds(m)
                   ELSE NaN
    IN  IF DGt0(result) THEN result ELSE NaN

ff_precise_duration(m, t) ==
    IF m.path = "null" THEN NaN
    ELSE IF m.open # "ok" THEN NaN
    ELSE IF m.vindex < 0
    THEN LET r0 == IF m.fmt_duration > 0 THEN ContainerSeconds(m) ELSE NaN
         IN  IF DGt0(r0) THEN r0 ELSE NaN
    ELSE
    LET last_ts == EndScan(m, t).last
        result  == IF last_ts # AV_NOPTS_VALUE
                   THEN DMul(Dbl(last_ts, 1), av_q2d(m.time_base))
                   ELSE IF m.vs_duration # AV_NOPTS_VALUE /\ m.vs_duration > 0
                   THEN StreamSeconds(m)
                   ELSE IF m.fmt_duration > 0
                   THEN ContainerSeconds(m)
                   ELSE NaN
    IN  IF DGt0(result) THEN result ELSE NaN

(***************************************************************************)
(* ff_open, the part that depends on the container only.                   *)
(***************************************************************************)
\* the first goto fail the container forces: "none" when it forces none
OpenFailure(m) ==
    IF m.open = "open_fail" THEN "open_input"
    ELSE IF m.open = "info_fail" THEN "stream_info"
    ELSE IF m.vindex < 0 THEN "no_stream"
    ELSE IF ~m.has_decoder THEN "no_decoder"
    ELSE "none"

\* *duration_s
OpenDuration(m) ==
    IF m.fmt_duration # AV_NOPTS_VALUE THEN ContainerSeconds(m)
    ELSE IF m.vs_duration # AV_NOPTS_VALUE THEN StreamSeconds(m)
    ELSE NaN

(***************************************************************************)
(* The decoder, by the contract of avcodec_send_packet and                 *)
(* avcodec_receive_frame.  d = [q, drain, delay]: the frames decoded and   *)
(* not yet output, whether the flush packet was sent, and how many frames  *)
(* the codec holds back until it gets more input or is flushed.            *)
(* An outcome is [r, d, f, inj]: the return code, the decoder after the    *)
(* call, the frame output (0: none) and whether it is a decoder failure.   *)
(***************************************************************************)
Ready(d) == Len(d.q) > d.delay \/ (d.drain /\ Len(d.q) > 0)

\* avcodec_send_packet(vdec, pkt) for a packet that decodes to `frames`
SendPacket(d, frames) ==
    IF d.drain
    THEN {[r |-> AVERROR_EOF, d |-> d, f |-> 0, inj |-> FALSE]}
    ELSE {[r |-> 0, d |-> [d EXCEPT !.q = @ \o frames], f |-> 0, inj |-> FALSE],
          [r |-> AVERROR_INVALIDDATA, d |-> d, f |-> 0, inj |-> TRUE]}
         \cup (IF Ready(d)
               THEN {[r |-> AVERROR_EAGAIN, d |-> d, f |-> 0, inj |-> FALSE]}
               ELSE {})

\* avcodec_send_packet(vdec, NULL): AVERROR_EOF when sent more than once
SendFlush(d) ==
    IF d.drain
    THEN {[r |-> AVERROR_EOF, d |-> d, f |-> 0, inj |-> FALSE]}
    ELSE {[r |-> 0, d |-> [d EXCEPT !.drain = TRUE], f |-> 0, inj |-> FALSE]}

\* avcodec_receive_frame(vdec, frame)
ReceiveFrame(d) ==
    {[r |-> AVERROR_INVALIDDATA, d |-> d, f |-> 0, inj |-> TRUE]}
    \cup (IF Ready(d)
          THEN {[r |-> 0, d |-> [d EXCEPT !.q = Tail(@)], f |-> Head(d.q),
                 inj |-> FALSE]}
          ELSE IF d.drain
          THEN {[r |-> AVERROR_EOF, d |-> d, f |-> 0, inj |-> FALSE]}
          ELSE {[r |-> AVERROR_EAGAIN, d |-> d, f |-> 0, inj |-> FALSE]})

(***************************************************************************)
(* The source of a session: the outcomes of av_read_frame in order, then   *)
(* AVERROR_EOF for ever.  [t |-> "pkt", stream_index, nf] is a packet that *)
(* decodes to nf frames; [t |-> "err"] is a read error.                    *)
(***************************************************************************)
ReadItems ==
    { [t |-> "pkt", stream_index |-> 0, nf |-> 1],
      [t |-> "pkt", stream_index |-> 0, nf |-> 2],
      [t |-> "pkt", stream_index |-> 1, nf |-> 1],
      [t |-> "err", stream_index |-> 0, nf |-> 0] }

RECURSIVE SeqsUpTo(_, _)
SeqsUpTo(S, n) ==
    IF n = 0 THEN {<<>>}
    ELSE LET shorter == SeqsUpTo(S, n - 1)
         IN  shorter \cup {Append(q, x) : q \in shorter, x \in S}

\* frames in the selected stream's packets among the first n read outcomes
RECURSIVE FramesIn(_, _, _)
FramesIn(s, vstream, n) ==
    IF n = 0 THEN 0
    ELSE FramesIn(s, vstream, n - 1)
         + (IF s[n].t = "pkt" /\ s[n].stream_index = vstream THEN s[n].nf ELSE 0)

\* the frames packet i decodes to, numbered in stream order
FramesOf(s, vstream, i) ==
    LET b == FramesIn(s, vstream, i - 1)
    IN  [k \in 1..s[i].nf |-> b + k]

(***************************************************************************)
(* State.                                                                  *)
(***************************************************************************)
VARIABLES
    meta,       \* the container, as the demuxer reports it
    tail,       \* what the demuxer does with ff_precise_duration's seeks and reads
    res,        \* the last estimator / identifier / ff_open call and its result
    src,        \* the read outcomes the session's source delivers
    delay,      \* frames the selected stream's codec holds back
    handle,     \* the caller's FFPlayer*: "null" | "p"
    sess,       \* the FFPlayer allocation: "none" | "live" | "freed"
    live,       \* the resources allocated and not released
    sws,        \* p->sws: "null" | "set"
    at_eof,     \* p->at_eof
    rd,         \* read outcomes consumed from src
    dec,        \* the decoder p->vdec
    pc,         \* "idle" | "loop": inside ff_next_frame's for (;;) or not
    out_ib,     \* *out_ib of the last ff_next_frame call: "null" | "buffer"
    retv,       \* <<r>>: what the last ff_next_frame call returned; <<>> before
    sendr,      \* <<r>>: the avcodec_send_packet result of the last pass
                \* through the loop body of that call; <<>> when it sent nothing
    recv,       \* <<r>>: the last avcodec_receive_frame result of that call
    open_out,   \* *duration_s of the last successful ff_open
    delivered,  \* the frames returned with result 1, in order
    sent,       \* what was passed to avcodec_send_packet: 0 the flush packet,
                \* i > 0 the i-th read outcome
    first_end,  \* <<r>>: the first result of the session that is not 1
    clean,      \* no read error, decoder failure or allocation failure so far
    uaf,        \* freed session memory was read (behaviour undefined from there)
    dblfree     \* the resources that were released twice

vars == <<meta, tail, res, src, delay, handle, sess, live, sws, at_eof, rd, dec,
          pc, out_ib, retv, sendr, recv, open_out, delivered, sent, first_end,
          clean, uaf, dblfree>>

\* what a call of an estimator or of the identifier cannot touch
callVars == <<src, delay, handle, sess, sws, at_eof, rd, dec, pc, out_ib,
              retv, sendr, recv, open_out, delivered, sent, first_end, clean,
              uaf, dblfree>>

\* the seeks and reads of a call: none but for ff_precise_duration
NoIO == [seeks |-> 0, reads |-> <<>>, scanned |-> <<>>]

NoRes == [fn |-> "none", dur |-> NaN, code |-> 0, io |-> NoIO]

NoDecoder == [q |-> <<>>, drain |-> FALSE, delay |-> 0]

\* the session part of the state before any ff_open
PumpIdle ==
    /\ handle = "null"
    /\ sess = "none"
    /\ live = {}
    /\ sws = "null"
    /\ at_eof = 0
    /\ rd = 0
    /\ dec = NoDecoder
    /\ pc = "idle"
    /\ out_ib = "null"
    /\ retv = <<>>
    /\ sendr = <<>>
    /\ recv = <<>>
    /\ open_out = NaN
    /\ delivered = <<>>
    /\ sent = {}
    /\ first_end = <<>>
    /\ clean = TRUE
    /\ uaf = FALSE
    /\ dblfree = {}

(***************************************************************************)
(* ff_open.                                                                *)
(***************************************************************************)
\* allocation failures the call may meet, beside what the container forces
OpenEnvFailures == {"none", "calloc", "alloc_context", "open_codec", "buffers"}

\* where ff_open fails: "none" when it returns a session
OpenFailPoint(m, env) ==
    IF env = "calloc" THEN "calloc"
    ELSE IF OpenFailure(m) # "none" THEN OpenFailure(m)
    ELSE env

\* what ff_open holds when it reaches the failure point
AcquiredAt(point) ==
    IF point = "calloc" THEN {}
    ELSE IF point = "open_input" THEN {"p"}
    ELSE IF point \in {"stream_info", "no_stream", "no_decoder", "alloc_context"}
    THEN {"p", "fmt"}
    ELSE IF point = "open_codec" THEN {"p", "fmt", "vdec"}
    ELSE IF point = "buffers" THEN {"p", "fmt", "vdec", "frame"}
    ELSE {"p", "fmt", "vdec", "frame", "pkt"}

\* faulty variant: the fail: block does not free the decoder context
ReleasedOnFail_keepsDecoder(held) == held \cap {"frame", "pkt", "fmt", "p"}

\* the fail: block releases frame, pkt, vdec, fmt when set, then p
ReleasedOnFail(held) == held \cap {"frame", "pkt", "vdec", "fmt", "p"}

\* [p |-> the session returned or "null", duration_s, live |-> still allocated]
ff_open(m, env) ==
    LET point == OpenFailPoint(m, env)
        held  == AcquiredAt(point)
    IN  IF point = "none"
        THEN [p |-> "p", duration_s |-> OpenDuration(m), live |-> held]
        ELSE [p |-> "null", duration_s |-> NaN,
              live |-> held \ ReleasedOnFail(held)]

FfOpen ==
    /\ pc = "idle"
    /\ sess # "live"
    /\ ~uaf
    /\ \E env \in OpenEnvFailures :
         LET o == ff_open(meta, env)
         IN  /\ live' = live \cup o.live
             /\ res' = [fn |-> "open", dur |-> o.duration_s,
                        code |-> IF o.p = "p" THEN 1 ELSE 0, io |-> NoIO]
             /\ IF o.p = "p"
                THEN /\ handle' = "p"
                     /\ sess' = "live"
                     /\ open_out' = o.duration_s
                     /\ dec' = [q |-> <<>>, drain |-> FALSE, delay |-> delay]
                ELSE /\ handle' = "null"
                     /\ sess' = "none"
                     /\ open_out' = NaN
                     /\ dec' = NoDecoder
    /\ sws' = "null"
    /\ at_eof' = 0
    /\ rd' = 0
    /\ out_ib' = "null"
    /\ retv' = <<>>
    /\ sendr' = <<>>
    /\ recv' = <<>>
    /\ delivered' = <<>>
    /\ sent' = {}
    /\ first_end' = <<>>
    /\ clean' = TRUE
    /\ UNCHANGED <<meta, tail, src, delay, pc, uaf, dblfree>>

(***************************************************************************)
(* ff_close.                                                               *)
(***************************************************************************)
\* the fields of the session and what is recorded of its calls
sessionVars == <<sws, at_eof, rd, dec, out_ib, retv, sendr, recv, delivered,
                 sent, first_end, clean>>

\* free(p): the session's fields are gone, and so is the record of its calls
SessionGone ==
    /\ sws' = "null"
    /\ at_eof' = 0
    /\ rd' = 0
    /\ dec' = NoDecoder
    /\ out_ib' = "null"
    /\ retv' = <<>>
    /\ sendr' = <<>>
    /\ recv' = <<>>
    /\ delivered' = <<>>
    /\ sent' = {}
    /\ first_end' = <<>>
    /\ clean' = TRUE

\* what ff_close releases on a live session
ReleasedOnClose(l) == l \cap {"sws", "frame", "pkt", "vdec", "fmt", "p"}

\* The caller's handle is passed by value: ff_close cannot clear it.  On a
\* handle that was closed before, p->sws ... p->fmt are read from freed memory;
\* each may read as null or not, and what reads as set is released again, then
\* free(p) runs a second time.
FfClose ==
    /\ pc = "idle"
    /\ ~uaf
    /\ \/ /\ handle = "null"                    \* if (!p) return;
          /\ UNCHANGED <<live, sess, uaf, dblfree>>
          /\ UNCHANGED sessionVars
       \/ /\ handle = "p"
          /\ sess = "live"
          /\ live' = live \ ReleasedOnClose(live)
          /\ sess' = "freed"
          /\ SessionGone
          /\ UNCHANGED <<uaf, dblfree>>
       \/ /\ handle = "p"
          /\ sess = "freed"
          /\ uaf' = TRUE
          /\ \E seen \in SUBSET {"sws", "frame", "pkt", "vdec", "fmt"} :
                dblfree' = seen \cup {"p"}
          /\ UNCHANGED <<live, sess>>
          /\ UNCHANGED sessionVars
    /\ UNCHANGED <<meta, tail, res, src, delay, handle, pc, open_out>>

(***************************************************************************)
(* ff_next_frame.                                                          *)
(***************************************************************************)
\* faulty variant: the stream index is not looked at
IsSelected_any(pkt, vstream) == TRUE

\* p->pkt->stream_index != p->vstream is discarded
IsSelected(pkt, vstream) == pkt.stream_index = vstream

\* One pass through the feeding half of the loop body.  A step is
\* [go, r, d, at_eof, rd, sent, inj]: go is "recv" (fall through to the
\* receive), "again" (continue) or "ret" (return r).

\* faulty variant: a read error starts the draining before it is returned
ReadBranch_errDrains(s, vstream, n, d) ==
    IF n >= Len(s)
    THEN { [go |-> "recv", r |-> o.r, d |-> o.d, at_eof |-> 1, rd |-> n,
            sent |-> {0}, inj |-> o.inj] : o \in SendFlush(d) }
    ELSE IF s[n + 1].t = "err"
    THEN { [go |-> "ret", r |-> AVERROR_EIO, d |-> o.d, at_eof |-> 1,
            rd |-> n + 1, sent |-> {0}, inj |-> TRUE] : o \in SendFlush(d) }
    ELSE IF ~IsSelected(s[n + 1], vstream)
    THEN { [go |-> "again", r |-> 0, d |-> d, at_eof |-> 0, rd |-> n + 1,
            sent |-> {}, inj |-> FALSE] }
    ELSE { [go |-> "recv", r |-> o.r, d |-> o.d, at_eof |-> 0, rd |-> n + 1,
            sent |-> {n + 1}, inj |-> o.inj]
           : o \in SendPacket(d, FramesOf(s, vstream, n + 1)) }

\* faulty variant: a packet of another stream is not consumed; the next pass
\* reads it again
ReadBranch_rereads(s, vstream, n, d) ==
    IF n >= Len(s)
    THEN { [go |-> "recv", r |-> o.r, d |-> o.d, at_eof |-> 1, rd |-> n,
            sent |-> {0}, inj |-> o.inj] : o \in SendFlush(d) }
    ELSE IF s[n + 1].t = "err"
    THEN { [go |-> "ret", r |-> AVERROR_EIO, d |-> d, at_eof |-> 0, rd |-> n + 1,
            sent |-> {}, inj |-> TRUE] }
    ELSE IF ~IsSelected(s[n + 1], vstream)
    THEN { [go |-> "again", r |-> 0, d |-> d, at_eof |-> 0, rd |-> n,
            sent |-> {}, inj |-> FALSE] }
    ELSE { [go |-> "recv", r |-> o.r, d |-> o.d, at_eof |-> 0, rd |-> n + 1,
            sent |-> {n + 1}, inj |-> o.inj]
           : o \in SendPacket(d, FramesOf(s, vstream, n + 1)) }

\* if (!p->at_eof): read one packet
ReadBranch(s, vstream, n, d) ==
    IF n >= Len(s)
    THEN \* AVERROR_EOF: set at_eof, send the flush packet, result not looked at
         { [go |-> "recv", r |-> o.r, d |-> o.d, at_eof |-> 1, rd |-> n,
            sent |-> {0}, inj |-> o.inj] : o \in SendFlush(d) }
    ELSE IF s[n + 1].t = "err"
    THEN { [go |-> "ret", r |-> AVERROR_EIO, d |-> d, at_eof |-> 0, rd |-> n + 1,
            sent |-> {}, inj |-> TRUE] }
    ELSE IF ~IsSelected(s[n + 1], vstream)
    THEN { [go |-> "again", r |-> 0, d |-> d, at_eof |-> 0, rd |-> n + 1,
            sent |-> {}, inj |-> FALSE] }
    ELSE \* r = avcodec_send_packet(...): r is overwritten by the receive
         { [go |-> "recv", r |-> o.r, d |-> o.d, at_eof |-> 0, rd |-> n + 1,
            sent |-> {n + 1}, inj |-> o.inj]
           : o \in SendPacket(d, FramesOf(s, vstream, n + 1)) }

\* faulty variant: a decoder that reports it was flushed restarts the reading
DrainBranch_clearsEof(n, d) ==
    { [go |-> IF o.r < 0 /\ o.r # AVERROR_EAGAIN THEN "ret" ELSE "recv",
       r |-> o.r, d |-> o.d, at_eof |-> IF o.r = AVERROR_EOF THEN 0 ELSE 1,
       rd |-> n, sent |-> {0}, inj |-> o.inj] : o \in SendFlush(d) }

\* else: already at EOF, send the flush packet again
DrainBranch(n, d) ==
    { [go |-> IF o.r < 0 /\ o.r # AVERROR_EAGAIN THEN "ret" ELSE "recv",
       r |-> o.r, d |-> o.d, at_eof |-> 1, rd |-> n, sent |-> {0},
       inj |-> o.inj] : o \in SendFlush(d) }

FeedStep(s, vstream, eof, n, d) ==
    IF eof = 0 THEN ReadBranch(s, vstream, n, d) ELSE DrainBranch(n, d)

\* faulty variant: "needs more input" ends the stream instead of looping
AfterReceive_eagainEnds(o, pb_ok) ==
    IF o.r = AVERROR_EAGAIN \/ o.r = AVERROR_EOF
    THEN [go |-> "ret", r |-> 0, out |-> "null", got |-> <<>>,
          pb |-> FALSE]
    ELSE IF o.r < 0
    THEN [go |-> "ret", r |-> o.r, out |-> "null", got |-> <<>>,
          pb |-> FALSE]
    ELSE IF ~pb_ok
    THEN [go |-> "ret", r |-> ERR_PIXBUF, out |-> "null", got |-> <<>>,
          pb |-> FALSE]
    ELSE [go |-> "ret", r |-> 1, out |-> "buffer", got |-> <<o.f>>,
          pb |-> TRUE]

\* what the loop body does with the receive's outcome o; pb_ok: whether
\* CVPixelBufferCreate succeeds.  [go, r, out, got, pb]: pb is whether the pass
\* created a pixel buffer, out whether it handed one to the caller
AfterReceive(o, pb_ok) ==
    IF o.r = AVERROR_EAGAIN
    THEN [go |-> "again", r |-> 0, out |-> "null", got |-> <<>>,
          pb |-> FALSE]
    ELSE IF o.r = AVERROR_EOF
    THEN [go |-> "ret", r |-> 0, out |-> "null", got |-> <<>>,
          pb |-> FALSE]
    ELSE IF o.r < 0
    THEN [go |-> "ret", r |-> o.r, out |-> "null", got |-> <<>>,
          pb |-> FALSE]
    ELSE IF ~pb_ok
    THEN [go |-> "ret", r |-> ERR_PIXBUF, out |-> "null", got |-> <<>>,
          pb |-> FALSE]
    ELSE [go |-> "ret", r |-> 1, out |-> "buffer", got |-> <<o.f>>,
          pb |-> TRUE]

\* the call returns r
Return(r, out, got) ==
    /\ pc' = "idle"
    /\ retv' = <<r>>
    /\ out_ib' = out
    /\ delivered' = delivered \o got
    /\ first_end' = IF first_end = <<>> /\ r # 1 THEN <<r>> ELSE first_end

\* entry: *out_ib = NULL; if (!p->sws && setup_sws(p) < 0) return -2;
NextFrameCall ==
    /\ pc = "idle"
    /\ handle = "p"
    /\ sess = "live"
    /\ sendr' = <<>>
    /\ recv' = <<>>
    /\ \/ /\ sws = "set"
          /\ pc' = "loop"
          /\ out_ib' = "null"
          /\ UNCHANGED <<sws, live, retv, delivered, first_end, clean>>
       \/ /\ sws = "null"
          /\ sws' = "set"
          /\ live' = live \cup {"sws"}
          /\ pc' = "loop"
          /\ out_ib' = "null"
          /\ UNCHANGED <<retv, delivered, first_end, clean>>
       \/ /\ sws = "null"
          /\ Return(ERR_SWS, "null", <<>>)
          /\ clean' = FALSE
          /\ UNCHANGED <<sws, live>>
    /\ UNCHANGED <<meta, tail, res, src, delay, handle, sess, at_eof, rd, dec,
                   open_out, sent, uaf, dblfree>>

\* one pass through the body of for (;;)
NextFrameIter ==
    /\ pc = "loop"
    /\ \E fd \in FeedStep(src, meta.vindex, at_eof, rd, dec) :
         /\ at_eof' = fd.at_eof
         /\ rd' = fd.rd
         /\ sent' = sent \cup fd.sent
         /\ sendr' = IF fd.sent = {} THEN <<>> ELSE <<fd.r>>
         /\ \/ /\ fd.go = "again"
               /\ dec' = fd.d
               /\ clean' = (clean /\ ~fd.inj)
               /\ UNCHANGED <<pc, retv, out_ib, delivered, first_end, recv, live>>
            \/ /\ fd.go = "ret"
               /\ dec' = fd.d
               /\ clean' = (clean /\ ~fd.inj)
               /\ Return(fd.r, "null", <<>>)
               /\ UNCHANGED <<recv, live>>
            \/ /\ fd.go = "recv"
               /\ \E o \in ReceiveFrame(fd.d), pb_ok \in BOOLEAN :
                    LET a == AfterReceive(o, pb_ok)
                    IN  /\ o.r < 0 => pb_ok
                        /\ dec' = o.d
                        /\ recv' = <<o.r>>
                        /\ clean' = (clean /\ ~fd.inj /\ ~o.inj /\ pb_ok)
                        \* a buffer that is created and not handed over stays
                        /\ live' = IF a.pb /\ a.out = "null"
                                   THEN live \cup {"pb"} ELSE live
                        /\ IF a.go = "again"
                           THEN UNCHANGED <<pc, retv, out_ib, delivered, first_end>>
                           ELSE Return(a.r, a.out, a.got)
    /\ UNCHANGED <<meta, tail, res, src, delay, handle, sess, sws,
                   open_out, uaf, dblfree>>

(***************************************************************************)
(* The containers the specifications start from.                           *)
(***************************************************************************)
\* the last one is a null path: it names no container, and the functions
\* that do not test it hand it to avformat_open_input, which cannot open it
FailMetas ==
    { [BaseMeta EXCEPT !.open = "open_fail", !.errcode = AVERROR_ENOENT],
      [BaseMeta EXCEPT !.open = "info_fail", !.errcode = AVERROR_INVALIDDATA],
      [BaseMeta EXCEPT !.path = "null", !.open = "open_fail",
                       !.errcode = AVERROR_ENOENT] }

\* every combination of the metadata the estimators read
DurMetas ==
    { [BaseMeta EXCEPT !.fmt_duration = fd, !.vs_duration = sd, !.time_base = tb,
                       !.nb_frames = nb, !.avg_frame_rate = afr,
                       !.r_frame_rate = rfr, !.bit_rate = br, !.pb = pb,
                       !.size = sz] :
        fd \in {AV_NOPTS_VALUE, -1000000, 0, 2000000},
        sd \in {AV_NOPTS_VALUE, -30, 0, 60},
        tb \in {Q(1, 30), Q(1001, 30000)},
        nb \in {0, 60},
        afr \in {Q(0, 1), Q(30, 1), Q(30, 0), Q(30000, 1001)},
        rfr \in {Q(0, 1), Q(25, 1)},
        br \in {0, 8000},
        pb \in BOOLEAN,
        sz \in {-1, 0, 2000} }

NoVideoMetas ==
    { [BaseMeta EXCEPT !.vindex = -1, !.fmt_duration = fd, !.bit_rate = br,
                       !.size = sz] :
        fd \in {AV_NOPTS_VALUE, -1000000, 0, 2000000},
        br \in {0, 8000},
        sz \in {-1, 2000} }

CodecMetas ==
    { [BaseMeta EXCEPT !.codec_name = nm, !.codec_tag = tg, !.has_decoder = hd] :
        nm \in {"notchlc", "h264"},
        \* none, "nclc", "avc1", "Nclc", and "nclc" most significant byte first
        tg \in {0, TAG_NCLC, 828601953, 1668047694, 1852009571},
        hd \in BOOLEAN }

\* the metadata ff_precise_duration reads (a 3 s container whose video
\* stream, when its duration is known, lasts 2 s)
PreciseMetas ==
    { [BaseMeta EXCEPT !.fmt_duration = fd, !.vs_duration = sd] :
        fd \in {AV_NOPTS_VALUE, 0, 3000000},
        sd \in {AV_NOPTS_VALUE, 0, 60} }

ScanItems ==
    { Pkt(0, AV_NOPTS_VALUE, AV_NOPTS_VALUE), Pkt(0, 0, 0),
      Pkt(0, AV_NOPTS_VALUE, 58), Pkt(0, 59, 58), Pkt(1, 90, 90) }

Tails ==
    { [seek |-> sk, scan |-> <<s1, s2, s3>>, more |-> BaseTail.more,
       alloc |-> 0] :
        sk \in { [file |-> TRUE,  frame |-> TRUE,  zero |-> TRUE],
                 [file |-> FALSE, frame |-> TRUE,  zero |-> TRUE],
                 [file |-> FALSE, frame |-> FALSE, zero |-> TRUE],
                 [file |-> FALSE, frame |-> FALSE, zero |-> FALSE] },
        s1 \in SeqsUpTo(ScanItems, MaxScan),
        s2 \in {<<>>, <<Pkt(0, 59, 58)>>},
        s3 \in {<<>>, <<Pkt(0, 57, 56)>>} }

\* ends where av_packet_alloc fails in window a
AllocTails ==
    { [BaseTail EXCEPT !.alloc = a, !.scan = <<s1, <<>>, <<>> >>] :
        a \in 1..3, s1 \in {<<>>, <<Pkt(1, 90, 90)>>} }

\* ends of sources with no true EOF: after the listed packets a window goes
\* on delivering one packet for ever
EndlessTails ==
    { [BaseTail EXCEPT !.more = <<f1, f2, f3>>, !.scan = <<s1, <<>>, <<>> >>] :
        f1 \in {<<>>, <<Pkt(1, 90, 90)>>,
                 <<Pkt(0, AV_NOPTS_VALUE, AV_NOPTS_VALUE)>>, <<Pkt(0, 59, 58)>>},
        f2 \in {<<>>, <<Pkt(1, 90, 90)>>,
                 <<Pkt(0, AV_NOPTS_VALUE, AV_NOPTS_VALUE)>>, <<Pkt(0, 59, 58)>>},
        f3 \in {<<>>, <<Pkt(1, 90, 90)>>,
                 <<Pkt(0, AV_NOPTS_VALUE, AV_NOPTS_VALUE)>>, <<Pkt(0, 59, 58)>>},
        s1 \in {<<>>, <<Pkt(0, AV_NOPTS_VALUE, AV_NOPTS_VALUE)>>} }

\* An undamaged container of n video frames at 25 frames per second with
\* consistent metadata: time base 1/25, timestamps 0 .. n-1, container
\* duration n x 40000 microseconds, stream duration n ticks, frame count n.
AgreeMeta(n) ==
    [BaseMeta EXCEPT !.fmt_duration = n * 40000, !.vs_duration = n,
                     !.time_base = Q(1, 25), !.nb_frames = n,
                     !.avg_frame_rate = Q(25, 1), !.r_frame_rate = Q(25, 1)]

\* the video packets with timestamps from .. n-1, in order
RECURSIVE LastPackets(_, _)
LastPackets(from, n) ==
    IF from >= n THEN <<>>
    ELSE <<Pkt(0, from, from)>> \o LastPackets(from + 1, n)

\* Its end: every seek succeeds and lands on one of its frames; the scan
\* reads from there to the end of the file, where a packet of another
\* stream may follow the last video packet.
AgreeTails(n) ==
    { [BaseTail EXCEPT !.scan = << LastPackets(from, n) \o trail, <<>>, <<>> >>] :
        from \in 0..(n - 1), trail \in {<<>>, <<Pkt(1, n, n)>>} }

\* a playable container, and the ways ff_open can fail on one
PlayableMeta ==
    [BaseMeta EXCEPT !.fmt_duration = 2000000, !.vs_duration = 60,
                     !.nb_frames = 60, !.avg_frame_rate = Q(30, 1)]

PumpFailMetas ==
    FailMetas \cup { [PlayableMeta EXCEPT !.vindex = -1],
                     [PlayableMeta EXCEPT !.has_decoder = FALSE] }

(***************************************************************************)
(* The estimator and identifier calls.                                     *)
(***************************************************************************)
\* Where a call of an estimator or of the identifier returns.  checks_path:
\* the function starts with if (!path); needs_stream: it returns early when
\* there is no video stream.
EstExit(m, checks_path, needs_stream) ==
    IF checks_path /\ m.path = "null" THEN "null_path"
    ELSE IF m.open = "open_fail" THEN "open_input"
    ELSE IF m.open = "info_fail" THEN "stream_info"
    ELSE IF needs_stream /\ m.vindex < 0 THEN "no_stream"
    ELSE "end"

\* what the call has opened when it gets there (avformat_open_input frees the
\* context itself when it fails)
EstHeldAt(point) ==
    IF point \in {"null_path", "open_input"} THEN {} ELSE {"local_fmt"}

\* avformat_close_input(&fmt) before that return
EstClosedAt(point) ==
    IF point \in {"stream_info", "no_stream", "end"} THEN {"local_fmt"} ELSE {}

\* what the call leaves allocated
EstLeft(m, checks_path, needs_stream) ==
    LET point == EstExit(m, checks_path, needs_stream)
    IN  EstHeldAt(point) \ EstClosedAt(point)

\* ff_precise_duration also allocates a packet per window it scans
PreciseLeft(m, t) ==
    EstLeft(m, TRUE, TRUE)
    \cup (IF EstExit(m, TRUE, TRUE) = "end"
             /\ EndScan(m, t).allocs > EndScan(m, t).frees
          THEN {"local_pkt"} ELSE {})

\* the seeks and reads of ff_precise_duration
PreciseIO(m, t) ==
    IF EstExit(m, TRUE, TRUE) = "end"
    THEN LET e == EndScan(m, t)
         IN  [seeks |-> e.seeks, reads |-> e.reads, scanned |-> e.scanned]
    ELSE NoIO

CallProbe ==
    /\ pc = "idle"
    /\ res' = [fn |-> "probe", dur |-> ff_probe_duration(meta), code |-> 0,
               io |-> NoIO]
    /\ live' = live \cup EstLeft(meta, FALSE, FALSE)
    /\ UNCHANGED <<meta, tail>>
    /\ UNCHANGED callVars

CallFrameAccurate ==
    /\ pc = "idle"
    /\ res' = [fn |-> "frame_accurate", dur |-> ff_frame_accurate_duration(meta),
               code |-> 0, io |-> NoIO]
    /\ live' = live \cup EstLeft(meta, TRUE, FALSE)
    /\ UNCHANGED <<meta, tail>>
    /\ UNCHANGED callVars

CallAvgFps ==
    /\ pc = "idle"
    /\ res' = [fn |-> "avg_fps", dur |-> ff_get_avg_fps(meta), code |-> 0,
               io |-> NoIO]
    /\ live' = live \cup EstLeft(meta, TRUE, FALSE)
    /\ UNCHANGED <<meta, tail>>
    /\ UNCHANGED callVars

CallFormat ==
    /\ pc = "idle"
    /\ res' = [fn |-> "format", dur |-> ff_format_duration(meta), code |-> 0,
               io |-> NoIO]
    /\ live' = live \cup EstLeft(meta, TRUE, FALSE)
    /\ UNCHANGED <<meta, tail>>
    /\ UNCHANGED callVars

CallPrecise ==
    /\ pc = "idle"
    /\ res' = [fn |-> "precise", dur |-> ff_precise_duration(meta, tail),
               code |-> 0, io |-> PreciseIO(meta, tail)]
    /\ live' = live \cup PreciseLeft(meta, tail)
    /\ UNCHANGED <<meta, tail>>
    /\ UNCHANGED callVars

CallIsNotchlc ==
    /\ pc = "idle"
    /\ res' = [fn |-> "is_notchlc", dur |-> NaN, code |-> ff_is_notchlc(meta),
               io |-> NoIO]
    /\ live' = live \cup EstLeft(meta, TRUE, TRUE)
    /\ UNCHANGED <<meta, tail>>
    /\ UNCHANGED callVars

(***************************************************************************)
(* Specifications.                                                         *)
(***************************************************************************)
\* a decode session over a source
Init ==
    /\ meta \in {PlayableMeta} \cup PumpFailMetas
    /\ tail = BaseTail
    /\ res = NoRes
    /\ src \in IF meta = PlayableMeta THEN SeqsUpTo(ReadItems, MaxPkts) ELSE {<<>>}
    /\ delay \in IF meta = PlayableMeta THEN 0..MaxDelay ELSE {0}
    /\ PumpIdle

Next ==
    \/ FfOpen
    \/ NextFrameCall
    \/ NextFrameIter
    \/ FfClose

Spec == Init /\ [][Next]_vars

\* the estimators, the identifier and ff_open on one container
InitDur ==
    /\ \/ /\ meta \in FailMetas \cup DurMetas \cup NoVideoMetas \cup CodecMetas
          /\ tail = BaseTail
       \/ /\ meta \in PreciseMetas
          /\ tail \in Tails \cup AllocTails \cup EndlessTails
       \/ \E n \in 1..MaxFrames :
             /\ meta = AgreeMeta(n)
             /\ tail \in AgreeTails(n)
    /\ res = NoRes
    /\ src = <<>>
    /\ delay = 0
    /\ PumpIdle

NextDur ==
    \/ CallProbe
    \/ CallFrameAccurate
    \/ CallAvgFps
    \/ CallFormat
    \/ CallPrecise
    \/ CallIsNotchlc
    \/ FfOpen

SpecDur == InitDur /\ [][NextDur]_vars

\* A decode session whose running ff_next_frame call is not suspended for
\* ever: the loop body is executed again as long as the call has not returned.
InitLive ==
    /\ meta \in {PlayableMeta} \cup PumpFailMetas
    /\ tail = BaseTail
    /\ res = NoRes
    /\ src \in IF meta = PlayableMeta THEN SeqsUpTo(ReadItems, MaxLivePkts)
               ELSE {<<>>}
    /\ delay \in IF meta = PlayableMeta THEN 0..MaxLiveDelay ELSE {0}
    /\ PumpIdle

SpecLive == InitLive /\ [][Next]_vars /\ WF_vars(NextFrameIter)

\* every function of the file, called by one caller on one container
InitRes ==
    /\ meta \in {PlayableMeta} \cup PumpFailMetas
    /\ tail \in {BaseTail} \cup AllocTails
    /\ res = NoRes
    /\ src \in IF meta = PlayableMeta THEN SeqsUpTo(ReadItems, MaxResPkts)
               ELSE {<<>>}
    /\ delay = 0
    /\ PumpIdle

NextRes ==
    \/ CallProbe
    \/ CallFrameAccurate
    \/ CallAvgFps
    \/ CallFormat
    \/ CallPrecise
    \/ CallIsNotchlc
    \/ FfOpen
    \/ NextFrameCall
    \/ NextFrameIter
    \/ FfClose

SpecRes == InitRes /\ [][NextRes]_vars

(***************************************************************************)
(* Properties of the decode pump (checked under Spec).                     *)
(***************************************************************************)
\* every frame of the selected stream's packets, in stream order
AllFrames == [k \in 1..FramesIn(src, meta.vindex, Len(src)) |-> k]

\* C1: on a source with finitely many packets and no read, decoder or
\* allocation failure, the calls up to the first result that is not 1 deliver
\* every decodable frame of the selected stream exactly once, in order, and
\* that first other result is the end-of-stream result 0.
C1_EveryFrameOnceThenEnd ==
    [][ (first_end = <<>> /\ first_end' # <<>> /\ clean')
          => (first_end' = <<0>> /\ delivered' = AllFrames) ]_vars

\* C2: closing a session twice (or closing a null session) touches no
\* released resource: no freed session memory is read, nothing is released
\* twice.
C2_CloseTwiceIsNoOp == ~uaf /\ dblfree = {}

\* C3: ff_next_frame returns 0 only when the receive step of that call
\* reported AVERROR_EOF, and the output buffer pointer is non-null exactly
\* when the call returned 1 (it is null while the call runs, on 0 and on every
\* negative result).
C3_EndOnlyWhenDrainedAndBufferIffFrame ==
    /\ pc = "loop" => out_ib = "null"
    /\ (pc = "idle" /\ retv # <<>>) =>
         /\ retv = <<0>> => recv = <<AVERROR_EOF>>
         /\ out_ib = "buffer" <=> retv = <<1>>
         /\ retv[1] <= 0 => out_ib = "null"

\* a session that delivered frames and then ended with 0
C3_Witness ==
    /\ pc = "idle"
    /\ retv = <<0>>
    /\ recv = <<AVERROR_EOF>>
    /\ out_ib = "null"
    /\ Len(delivered) >= 2

\* C4: the end-of-input flag is clear after ff_open, and a step of a live
\* session never takes it from set to clear, whatever the call returns.
C4_EofFlagMonotonic ==
    [][ /\ (sess # "live" /\ sess' = "live") => at_eof' = 0
        /\ (sess = "live" /\ sess' = "live" /\ at_eof = 1) => at_eof' = 1 ]_vars

\* a call on a session at end-of-input returned an error and the flag is set
C4_Witness ==
    /\ sess = "live"
    /\ pc = "idle"
    /\ at_eof = 1
    /\ retv # <<>>
    /\ retv[1] < 0

\* C5: only packets of the selected video stream, and the flush packet, are
\* ever passed to avcodec_send_packet; a packet of another stream that was
\* read is never among them.
C5_OnlySelectedStreamIsSent ==
    /\ \A i \in sent :
         i = 0 \/ (i \in 1..rd /\ src[i].t = "pkt"
                   /\ src[i].stream_index = meta.vindex)
    /\ \A i \in 1..rd :
         (src[i].t = "pkt" /\ src[i].stream_index # meta.vindex) => i \notin sent

\* a packet of another stream was read and dropped, a later packet of the
\* selected stream and then the flush packet were sent
C5_Witness ==
    \E i, j \in 1..rd :
        /\ i < j
        /\ src[i].t = "pkt" /\ src[i].stream_index # meta.vindex
        /\ j \in sent
        /\ 0 \in sent

(***************************************************************************)
(* Properties of the estimators, the identifier and ff_open (checked       *)
(* under SpecDur).                                                         *)
(***************************************************************************)
DurationFns == {"probe", "frame_accurate", "format", "precise"}

\* a Duration Estimate: unknown, or strictly positive
IsEstimate(v) == v.nan \/ (v.n > 0 /\ v.d > 0)

\* C6: each of ff_probe_duration, ff_frame_accurate_duration,
\* ff_format_duration and ff_precise_duration returns NaN or a strictly
\* positive value, whatever the container metadata and scanned timestamps.
C6_DurationsUnknownOrPositive ==
    res.fn \in DurationFns => IsEstimate(res.dur)

\* the scan captured timestamp 0 and ff_precise_duration answered unknown
C6_Witness ==
    /\ res.fn = "precise"
    /\ meta.open = "ok" /\ meta.vindex >= 0
    /\ EndScan(meta, tail).last = 0
    /\ res.dur = NaN

\* C7: the duration ff_open reports is unknown or strictly positive, also
\* for a container duration that is zero or negative and not the no-value
\* sentinel.
C7_OpenDurationIsEstimate ==
    (res.fn = "open" /\ res.code = 1) => IsEstimate(res.dur)

\* C8: when the container cannot be opened or its stream information cannot
\* be resolved, every duration entry point returns NaN, ff_is_notchlc returns
\* -1 and ff_open returns no session; none returns the libavformat error code.
C8_UnreadableContainer ==
    meta.open # "ok" =>
        /\ res.fn \in DurationFns => res.dur = NaN
        /\ res.fn = "is_notchlc" => res.code = -1
        /\ res.fn = "open" =>
             (res.code = 0 /\ handle = "null" /\ sess = "none" /\ live = {})
        /\ res.fn # "none" =>
             (res.code # meta.errcode /\ res.dur # Dbl(meta.errcode, 1))

\* stream information could not be resolved and ff_is_notchlc returned -1
C8_Witness ==
    /\ meta.open = "info_fail"
    /\ res.fn = "is_notchlc"
    /\ res.code = -1

\* The tiers of the fast probe as the specification words them; a tier that
\* is unavailable is NaN.
TierContainer(m) ==
    IF m.fmt_duration # AV_NOPTS_VALUE
    THEN Dbl(m.fmt_duration, AV_TIME_BASE) ELSE NaN

TierStream(m) ==
    IF m.vindex >= 0 /\ m.vs_duration # AV_NOPTS_VALUE
    THEN DMul(Dbl(m.vs_duration, 1), Dbl(m.time_base.num, m.time_base.den))
    ELSE NaN

TierFrames(m, rate) ==
    IF m.vindex >= 0 /\ m.nb_frames > 0 /\ rate.num > 0 /\ rate.den > 0
    THEN Dbl(m.nb_frames * rate.den, rate.num) ELSE NaN

TierBitRate(m) ==
    IF m.pb /\ m.bit_rate > 0 /\ m.size > 0
    THEN Dbl(m.size * 8, m.bit_rate) ELSE NaN

\* the first tier with a positive value, unknown when there is none
FirstKnown(a, b, c, d) ==
    IF DGt0(a) THEN a ELSE IF DGt0(b) THEN b
    ELSE IF DGt0(c) THEN c ELSE IF DGt0(d) THEN d ELSE NaN

UsableRate(q) == q.num > 0 /\ q.den > 0

\* C9 as stated: ff_probe_duration returns the first available of container
\* duration, stream duration x time base, frame count / frame rate, size x 8 /
\* bit rate, where the frame rate is the average frame rate, or the real frame
\* rate whenever the average frame rate is not a usable nonzero rate.
C9_AsStated ==
    (res.fn = "probe" /\ meta.open = "ok") =>
        res.dur = FirstKnown(TierContainer(meta), TierStream(meta),
                             TierFrames(meta,
                                 IF UsableRate(meta.avg_frame_rate)
                                 THEN meta.avg_frame_rate
                                 ELSE meta.r_frame_rate),
                             TierBitRate(meta))

\* C9 (amended): the same tier order, where the frame rate is the average
\* frame rate when its numerator is positive and the real frame rate
\* otherwise (an average frame rate with a positive numerator and a zero
\* denominator makes the frame tier unavailable; the real frame rate is not
\* tried).
C9_TierOrder ==
    (res.fn = "probe" /\ meta.open = "ok") =>
        res.dur = FirstKnown(TierContainer(meta), TierStream(meta),
                             TierFrames(meta,
                                 IF meta.avg_frame_rate.num > 0
                                 THEN meta.avg_frame_rate
                                 ELSE meta.r_frame_rate),
                             TierBitRate(meta))

\* no container or stream duration, no average frame rate: the answer is
\* frame count / real frame rate although the bit-rate tier is available too
C9_Witness ==
    /\ res.fn = "probe"
    /\ meta.open = "ok" /\ meta.vindex >= 0
    /\ meta.fmt_duration <= 0 /\ meta.vs_duration <= 0
    /\ meta.avg_frame_rate.num = 0
    /\ meta.nb_frames = 60 /\ meta.r_frame_rate = Q(25, 1)
    /\ meta.bit_rate > 0 /\ meta.pb /\ meta.size > 0
    /\ res.dur = Dbl(12, 5)

\* C10: ff_frame_accurate_duration returns frame count x (den / num) of the
\* frame rate when frame count and frame rate are positive; otherwise stream
\* duration x time base when the stream duration is known; otherwise unknown.
\* A value that is not positive is never returned (C6): that tier counts as
\* unavailable.
C10_FramesThenStreamDuration ==
    (res.fn = "frame_accurate" /\ meta.open = "ok") =>
        LET rate == IF meta.avg_frame_rate.num > 0
                    THEN meta.avg_frame_rate ELSE meta.r_frame_rate
        IN  IF DGt0(TierFrames(meta, rate))
            THEN res.dur = DMul(Dbl(meta.nb_frames, 1), Dbl(rate.den, rate.num))
            ELSE IF DGt0(TierStream(meta))
            THEN res.dur = TierStream(meta)
            ELSE res.dur = NaN

\* frame count zero, average frame rate and stream duration valid: the
\* answer is the stream duration in seconds
C10_Witness ==
    /\ res.fn = "frame_accurate"
    /\ meta.open = "ok" /\ meta.vindex >= 0
    /\ meta.nb_frames = 0
    /\ meta.avg_frame_rate = Q(30, 1)
    /\ meta.vs_duration = 60 /\ meta.time_base = Q(1, 30)
    /\ res.dur = Dbl(2, 1)

(***************************************************************************)
(* Properties of ff_precise_duration (checked under SpecDur).              *)
(***************************************************************************)
\* whether pkt is a packet of the selected stream that carries a timestamp
IsStamped(m, pkt) ==
    /\ pkt.stream_index = m.vindex
    /\ (pkt.pts # AV_NOPTS_VALUE \/ pkt.dts # AV_NOPTS_VALUE)

\* its timestamp: presentation timestamp, or decode timestamp without one
StampOf(pkt) == IF pkt.pts # AV_NOPTS_VALUE THEN pkt.pts ELSE pkt.dts

\* whether the end seek of ff_precise_duration can succeed at all
CanSeek(m, t) ==
    \/ t.seek.file
    \/ t.seek.zero
    \/ (t.seek.frame /\ (m.fmt_duration > 0 \/ m.vs_duration > 0))

\* the windows whose packets are read if no earlier window captures anything
WindowsOpen(m, t) ==
    IF ~CanSeek(m, t) THEN {}
    ELSE IF t.alloc > 0 THEN 1..(t.alloc - 1)
    ELSE 1..3

\* <<ts>>: the timestamp of the last stamped packet window w delivers;
\* <<>> when it delivers none
WindowStamp(m, t, w) ==
    IF t.more[w] # <<>> /\ IsStamped(m, t.more[w][1])
    THEN <<StampOf(t.more[w][1])>>
    ELSE LET st == {i \in 1..Len(t.scan[w]) : IsStamped(m, t.scan[w][i])}
         IN  IF st = {} THEN <<>>
             ELSE <<StampOf(t.scan[w][CHOOSE i \in st : \A j \in st : j <= i])>>

\* the windows that deliver a stamped packet, among those that are read
Capturing(m, t) == {w \in WindowsOpen(m, t) : WindowStamp(m, t, w) # <<>>}

\* the first of them
FirstCapturing(m, t) ==
    CHOOSE w \in Capturing(m, t) : \A v \in Capturing(m, t) : w <= v

\* a value that is not positive counts as unknown
Known(v) == IF DGt0(v) THEN v ELSE NaN

\* C11: with a video stream, ff_precise_duration answers the last captured
\* timestamp of the selected stream x time base when the end scan captured
\* one; else stream duration x time base; else container duration / global
\* time unit; else unknown.  Without a video stream it answers the container
\* duration, or unknown when that is not positive.  In every tier a value
\* that is not positive is reported as unknown (C6).
C11_PreciseTierOrder ==
    (res.fn = "precise" /\ meta.path = "file" /\ meta.open = "ok") =>
        IF meta.vindex < 0
        THEN res.dur = Known(TierContainer(meta))
        ELSE IF Capturing(meta, tail) # {}
        THEN LET ts == WindowStamp(meta, tail, FirstCapturing(meta, tail))[1]
             IN  res.dur = Known(DMul(Dbl(ts, 1), Dbl(meta.time_base.num,
                                                      meta.time_base.den)))
        ELSE res.dur = FirstKnown(TierStream(meta), TierContainer(meta),
                                  NaN, NaN)

\* nothing was captured, stream and container duration are both known and
\* differ: the answer is the stream duration in seconds
C11_Witness ==
    /\ res.fn = "precise"
    /\ meta.open = "ok" /\ meta.vindex >= 0
    /\ Len(res.io.scanned) = 3
    /\ Capturing(meta, tail) = {}
    /\ meta.vs_duration = 60 /\ meta.fmt_duration = 3000000
    /\ res.dur = Dbl(2, 1)

(***************************************************************************)
(* Properties of the codec identifier (checked under SpecDur).             *)
(***************************************************************************)
\* C12: ff_is_notchlc answers 1 when the selected stream's codec name is
\* "notchlc", and when it is not but the codec tag, read least significant
\* byte first, spells "nclc"; 0 for every other codec of an openable
\* container with a video stream, a zero tag included; -1 when the path is
\* null, the container cannot be opened or there is no video stream.
C12_IdentifierAnswers ==
    res.fn = "is_notchlc" =>
        res.code =
            IF meta.path = "null" \/ meta.open # "ok" \/ meta.vindex < 0
            THEN -1
            ELSE IF meta.codec_name = "notchlc" THEN 1
            ELSE IF meta.codec_tag = 110 + 99 * 256 + 108 * 65536 + 99 * 16777216
            THEN 1
            ELSE 0

\* another codec name with the tag "nclc": a match
C12_Witness ==
    /\ res.fn = "is_notchlc"
    /\ meta.path = "file" /\ meta.open = "ok" /\ meta.vindex >= 0
    /\ meta.codec_name = "h264"
    /\ meta.codec_tag = TAG_NCLC
    /\ res.code = 1

(***************************************************************************)
(* Agreement of the estimators (checked under SpecDur).                    *)
(***************************************************************************)
\* an undamaged container with a known nonzero container duration, an
\* accurate frame count and frame rate, and nb_frames >= 1 video frames with
\* consecutive timestamps 0, 1, ... in a time base of one frame period, whose
\* end scan reads up to the last frame
Undamaged(m, t) ==
    /\ m.path = "file" /\ m.open = "ok" /\ m.vindex >= 0
    /\ m.fmt_duration > 0
    /\ m.nb_frames >= 1
    /\ UsableRate(m.avg_frame_rate)
    /\ m.time_base = Q(m.avg_frame_rate.den, m.avg_frame_rate.num)
    /\ Dbl(m.fmt_duration, AV_TIME_BASE)
         = Dbl(m.nb_frames * m.avg_frame_rate.den, m.avg_frame_rate.num)
    /\ m.vs_duration = m.nb_frames
    /\ t.seek.file /\ t.alloc = 0 /\ t.more = BaseTail.more
    /\ WindowStamp(m, t, 1) = <<m.nb_frames - 1>>

AgreeingFns == {"probe", "frame_accurate", "precise"}

\* |a - b| <= p, for known a, b, p
Within(a, b, p) ==
    Abs(a.n * b.d - b.n * a.d) * p.d <= p.n * a.d * b.d

\* C13: on every such container the results of ff_probe_duration,
\* ff_frame_accurate_duration and ff_precise_duration are all known, and the
\* results of any two of them called one after the other differ by at most
\* one frame period (1 / frame rate).
C13_EstimatesAgree ==
    /\ []( (Undamaged(meta, tail) /\ res.fn \in AgreeingFns) => ~res.dur.nan )
    /\ [][ (Undamaged(meta, tail) /\ res.fn \in AgreeingFns
              /\ res'.fn \in AgreeingFns)
            => /\ ~res.dur.nan /\ ~res'.dur.nan
               /\ Within(res.dur, res'.dur,
                         Dbl(meta.avg_frame_rate.den, meta.avg_frame_rate.num))
         ]_vars

(***************************************************************************)
(* Error paths of the decode pump (checked under Spec).                    *)
(***************************************************************************)
\* the next av_read_frame of the running call fails, and not with AVERROR_EOF
ReadErrorNext ==
    /\ pc = "loop"
    /\ at_eof = 0
    /\ rd < Len(src)
    /\ src[rd + 1].t = "err"

\* C14: when av_read_frame fails with an error other than end-of-input, that
\* pass through the loop returns the error code at once: the decoder and the
\* end-of-input flag are as before, nothing is sent to the decoder (no
\* packet, no flush packet), no frame is received or delivered.
C14_ReadErrorReturnsAtOnce ==
    [][ ReadErrorNext =>
          /\ pc' = "idle"
          /\ retv' = <<AVERROR_EIO>>
          /\ out_ib' = "null"
          /\ dec' = dec
          /\ at_eof' = at_eof
          /\ sent' = sent
          /\ sendr' = <<>>
          /\ recv' = recv
          /\ delivered' = delivered ]_vars

\* a call returned the read error after an earlier call delivered a frame,
\* with frames still held by the decoder
C14_Witness ==
    /\ pc = "idle"
    /\ retv = <<AVERROR_EIO>>
    /\ rd > 0 /\ src[rd].t = "err"
    /\ at_eof = 0
    /\ Len(delivered) >= 1
    /\ Len(dec.q) >= 1
    /\ ~dec.drain

\* a result of the decoder that is an error and not "needs more input"
IsDecoderError(r) == r < 0 /\ r # AVERROR_EAGAIN

\* C15: whenever the decoder answers a send (of a packet of the selected
\* stream or of the flush packet) with a negative result other than
\* AVERROR(EAGAIN), or a receive with one other than AVERROR(EAGAIN) and
\* AVERROR_EOF, that ff_next_frame call returns exactly that code from that
\* pass through the loop.
C15_DecoderErrorsVerbatim ==
    [][ pc = "loop" =>
          /\ (sendr' # <<>> /\ IsDecoderError(sendr'[1]))
               => (pc' = "idle" /\ retv' = sendr')
          /\ (recv' # <<>> /\ IsDecoderError(recv'[1])
                /\ recv'[1] # AVERROR_EOF)
               => (pc' = "idle" /\ retv' = recv') ]_vars

(***************************************************************************)
(* Resources (checked under SpecRes).                                      *)
(***************************************************************************)
SessionResources == {"p", "fmt", "vdec", "frame", "pkt", "sws"}

\* C16: every call of an estimator or of the identifier has closed the
\* source and freed every packet buffer it allocated when it returns, on
\* every branch; while no session exists (before the first ff_open and after
\* a failed one) no source, decoder, packet or frame buffer or session is
\* allocated; and an ff_next_frame call that returned an error left no pixel
\* buffer that it created and did not hand to the caller.
C16_NothingLeftAllocated ==
    /\ pc = "idle" => live \cap {"local_fmt", "local_pkt"} = {}
    /\ sess = "none" => live \cap SessionResources = {}
    /\ (res.fn = "open" /\ res.code = 0) => (handle = "null" /\ sess = "none")
    /\ (pc = "idle" /\ retv # <<>> /\ retv[1] < 0) =>
         ("pb" \notin live /\ out_ib = "null")

\* ff_precise_duration returned after av_packet_alloc failed in its second
\* window, called on a live session whose last ff_next_frame call failed to
\* create the pixel buffer
C16_Witness ==
    /\ res.fn = "precise"
    /\ tail.alloc = 2
    /\ res.io.scanned = <<1>> /\ res.io.seeks = 2
    /\ sess = "live" /\ pc = "idle"
    /\ retv = <<ERR_PIXBUF>>
    /\ live = SessionResources

(***************************************************************************)
(* The windows of ff_precise_duration (checked under SpecDur).             *)
(***************************************************************************)
\* a call of ff_precise_duration that reached the window loop
PreciseScanned ==
    /\ res.fn = "precise"
    /\ meta.path = "file" /\ meta.open = "ok" /\ meta.vindex >= 0

\* C17: the windows are tried in the order 0 s, 5 s, 30 s; a window is
\* seeked to and scanned only if every earlier window finished its scan
\* without capturing a timestamp of the selected stream; as soon as a window
\* captures one there is no further seek and no further packet read.
C17_WindowsInOrderUntilCapture ==
    PreciseScanned =>
        LET sc  == res.io.scanned
            cap == Capturing(meta, tail)
        IN  /\ \A i \in 1..Len(sc) : sc[i] = i
            /\ \A i \in 1..Len(sc) : \A j \in 1..(i - 1) :
                  WindowStamp(meta, tail, j) = <<>>
            /\ Len(res.io.reads) = Len(sc)
            /\ IF cap # {}
               THEN /\ Len(sc) = FirstCapturing(meta, tail)
                    /\ res.io.seeks = Len(sc)
               ELSE /\ Len(sc) = Cardinality(WindowsOpen(meta, tail))
                    /\ res.io.seeks <= Len(sc) + 1

\* the first window read a packet of another stream only, the second
\* captured a timestamp, the third has a packet that was never read
C17_Witness ==
    /\ PreciseScanned
    /\ tail.scan[1] = <<Pkt(1, 90, 90)>>
    /\ tail.scan[2] # <<>>
    /\ tail.scan[3] # <<>>
    /\ res.io.scanned = <<1, 2>>
    /\ res.io.seeks = 2
    /\ res.io.reads = <<2, 2>>

RECURSIVE SumOf(_)
SumOf(q) == IF q = <<>> THEN 0 ELSE Head(q) + SumOf(Tail(q))

\* C18: ff_precise_duration returns on every source, also on one whose
\* packets never end and that never reports an error: the forward scan of a
\* window reads at most 10,000 packets, so one call makes at most 3 end seeks
\* and at most 30,000 packet reads.
C18_ScanIsCapped ==
    res.fn = "precise" =>
        /\ res.io.seeks <= 3
        /\ Len(res.io.reads) <= 3
        /\ \A i \in 1..Len(res.io.reads) : res.io.reads[i] <= 10000
        /\ SumOf(res.io.reads) <= 30000

\* a source that never ends and carries no timestamp of the selected stream
\* in any window: three seeks, 10,000 reads per window, then the fall-back
C18_Witness ==
    /\ PreciseScanned
    /\ \A w \in 1..3 : tail.more[w] # <<>>
    /\ Capturing(meta, tail) = {}
    /\ res.io.seeks = 3
    /\ res.io.reads = <<10000, 10000, 10000>>
    /\ meta.vs_duration = 60
    /\ res.dur = Dbl(2, 1)

(***************************************************************************)
(* Termination of the decode pump (checked under SpecLive).                *)
(***************************************************************************)
\* C19: on a source that delivers finitely many packets before end-of-input,
\* every ff_next_frame call returns after finitely many passes through its
\* loop, also while the decoder is draining; and a session never yields more
\* frame results than the selected stream's packets hold frames, so that
\* repeated calls come to a result that is not a frame.
C19_EveryCallReturns ==
    /\ (pc = "loop") ~> (pc = "idle")
    /\ [](Len(delivered) <= Len(AllFrames))

\* both packets of the source were read and a call has returned a frame
\* from the draining decoder
C19_Witness ==
    /\ pc = "idle"
    /\ retv = <<1>>
    /\ at_eof = 1
    /\ rd = 2
    /\ Len(delivered) = 1
    /\ dec.drain

(***************************************************************************)
(* The fall-backs of ff_precise_duration (checked under SpecDur).          *)
(***************************************************************************)
\* C20: with a video stream, ff_precise_duration answers unknown only if no
\* fall-back could supply a positive value: whenever stream duration x time
\* base or the container duration is known and positive the answer is known,
\* also when the captured last packet timestamp is zero or negative.
C20_UnknownOnlyWithoutFallback ==
    (PreciseScanned
       /\ (DGt0(TierStream(meta)) \/ DGt0(TierContainer(meta))))
    => ~res.dur.nan

====
